---------------------------- MODULE Spec2Model ----------------------------
(***************************************************************************)
(* tocparser: the MSF time value, the PLY grammar of lex.py and the TOC    *)
(* wrapper objects of __init__.py.                                         *)
(*                                                                         *)
(* Python values are tagged records: every value carries its Python type   *)
(* in the field "type", so that type(val) == int, a None test or a missing *)
(* dictionary key can be decided the way the interpreter decides them.      *)
(* Text is a TLA+ string; Len, SubSeq and \o act on it character by         *)
(* character.                                                              *)
(***************************************************************************)
EXTENDS Integers, Sequences, FiniteSets, TLC

VARIABLES
    \* -- client of the MSF class (specification Spec)
    raw,        \* the three raw (m,s,f) triples the client was handed
    mpc,        \* the client's position
    a, b, c,    \* MSF(raw[1]), MSF(raw[2]), MSF(raw[3])
    sums,       \* the MSF sums the client formed
    txt,        \* str(a)
    back,       \* MSF.Create(str(a))
    forms,      \* MSF.Create(n) and MSF.Create("m:s:f") of the same time
    trks,       \* Track(p) of the two TIMES forms of the same FILE line
    \* -- TOC.parse (specification SpecParse)
    input,      \* the text handed to TOC.parse, as the tokens lex makes of it
    lexpos,     \* the next token the parser will be given
    statestack, \* parser.parse: the stack of LR states
    symstack,   \* parser.parse: the values of the symbols on the stack
    ppc,        \* where TOC.parse is
    result,     \* what yaccer returned or raised
    toc,        \* the TOC object: None until parse has assigned its fields
    \* -- concurrent calls of lexer and yaccer (specification SpecThreads)
    lexers,     \* the Lexer objects lex.lex() has made: their lexdata, lexpos
    lexglobal,  \* ply.lex's module globals input/token: the Lexer they are bound to
    threads,    \* each thread's call: its text, position, own Lexer, tokens
    \* -- a caller of TOC.GetTrack (specification SpecGetTrack)
    gself,      \* the TOC object
    gnum,       \* the argument of GetTrack
    got,        \* what GetTrack returned or raised
    gpc,        \* the caller's position
    \* -- one call of lexer (specification SpecLexer)
    ltext,      \* the text, and the words it was written from
    lself,      \* the Lexer of the call: its lexpos
    ltoks,      \* toks: the tokens so far, each with its lexpos and the
                \* Lexer's lexpos after it
    lpc         \* where the call is, and its result when it has ended

msfVars == <<raw, mpc, a, b, c, sums, txt, back, forms, trks>>
parseVars == <<input, lexpos, statestack, symstack, ppc, result, toc>>
lexVars == <<lexers, lexglobal, threads>>
tocVars == <<gself, gnum, got, gpc>>
tokVars == <<ltext, lself, ltoks, lpc>>

vars == <<msfVars, parseVars, lexVars, tocVars, tokVars>>

----------------------------------------------------------------------------
(* Python values *)

None == [type |-> "NoneType"]
IntV(n) == [type |-> "int", val |-> n]
StrV(s) == [type |-> "str", val |-> s]
BoolV(x) == [type |-> "bool", val |-> x]
ListV(q) == [type |-> "list", val |-> q]
TupleV(q) == [type |-> "tuple", val |-> q]
DictV(r) == [type |-> "dict", val |-> r]
Raise(e) == [type |-> "exception", exc |-> e]
IsExc(v) == v.type = "exception"

\* x + y on lists
ListAdd(x, y) ==
    IF x.type = "list" /\ y.type = "list" THEN ListV(x.val \o y.val)
    ELSE Raise("TypeError")

\* the value of the expression x.append(y): None, or AttributeError when x
\* is None
ListAppend(x, y) ==
    IF x.type = "list" THEN None ELSE Raise("AttributeError")

Digits == <<"0", "1", "2", "3", "4", "5", "6", "7", "8", "9">>
IsDigit(ch) == \E i \in 1..10 : Digits[i] = ch
DigitVal(ch) == (CHOOSE i \in 1..10 : Digits[i] = ch) - 1
CharAt(s, i) == SubSeq(s, i, i)

\* int(v) of a decimal string: the value, or ValueError when a character is
\* no digit or the string is empty
RECURSIVE DigitsValue(_, _)
DigitsValue(s, acc) ==
    IF Len(s) = 0 THEN acc
    ELSE DigitsValue(Tail(s), acc * 10 + DigitVal(CharAt(s, 1)))

AllDigits(s) == Len(s) > 0 /\ \A i \in 1..Len(s) : IsDigit(CharAt(s, i))

\* int(v): identity on an int, parse of a str
ToInt(v) ==
    CASE v.type = "int" -> v
      [] v.type = "str" ->
            IF AllDigits(v.val) THEN IntV(DigitsValue(v.val, 0))
            ELSE Raise("ValueError")
      [] OTHER -> Raise("TypeError")

\* "%d" % n for n >= 0
RECURSIVE DecStr(_)
DecStr(n) ==
    IF n < 10 THEN Digits[n + 1]
    ELSE DecStr(n \div 10) \o Digits[(n % 10) + 1]

\* "%02d" % n: at least two characters, padded with zeros on the left
Fmt02d(n) == IF n < 10 THEN "0" \o DecStr(n) ELSE DecStr(n)

\* s.split(sep) for a one-character separator
RECURSIVE SplitFrom(_, _, _, _)
SplitFrom(s, sep, i, cur) ==
    IF i > Len(s) THEN <<cur>>
    ELSE IF CharAt(s, i) = sep THEN <<cur>> \o SplitFrom(s, sep, i + 1, "")
    ELSE SplitFrom(s, sep, i + 1, cur \o CharAt(s, i))

Split(s, sep) == SplitFrom(s, sep, 1, "")

----------------------------------------------------------------------------
(* class MSF *)

FramesPerSecond == 75
SecondsPerMinute == 60

\* MSF.__init__ with the seconds carry lost
MSF_init_nocarry(m, s, f) ==
    LET mi == ToInt(m)
        si == ToInt(s)
        fi == ToInt(f)
    IN  IF IsExc(mi) THEN mi
        ELSE IF IsExc(si) THEN si
        ELSE IF IsExc(fi) THEN fi
        ELSE [type |-> "MSF", m |-> mi.val, s |-> si.val % SecondsPerMinute,
              f |-> fi.val % FramesPerSecond]

\* MSF.__init__: int() of each argument, then the two carries.  int(f / 75)
\* truncates the quotient, which for the non-negative values below 2^53
\* drawn here is the integer quotient.
MSF_init(m, s, f) ==
    LET mi == ToInt(m)
        si == ToInt(s)
        fi == ToInt(f)
    IN  IF IsExc(mi) THEN mi
        ELSE IF IsExc(si) THEN si
        ELSE IF IsExc(fi) THEN fi
        ELSE LET s1 == si.val + (fi.val \div FramesPerSecond)
                 f1 == fi.val % FramesPerSecond
                 m1 == mi.val + (s1 \div SecondsPerMinute)
                 s2 == s1 % SecondsPerMinute
             IN  [type |-> "MSF", m |-> m1, s |-> s2, f |-> f1]

\* MSF.__str__
MSF_str(self) ==
    Fmt02d(self.m) \o ":" \o Fmt02d(self.s) \o "." \o Fmt02d(self.f)

\* MSF.__add__ adding the frames alone
MSF_add_framesonly(self, o) == MSF_init(IntV(self.m), IntV(self.s), IntV(self.f + o.f))

\* MSF.__add__
MSF_add(self, o) ==
    MSF_init(IntV(self.m + o.m), IntV(self.s + o.s), IntV(self.f + o.f))

\* MSF.Create taking the integer for a count of seconds
MSF_Create_seconds(val) ==
    CASE val.type = "int" -> MSF_init(IntV(0), val, IntV(0))
      [] val.type = "str" ->
            LET parts == Split(val.val, ":")
            IN  IF Len(parts) # 3 THEN Raise("ValueError")
                ELSE MSF_init(StrV(parts[1]), StrV(parts[2]), StrV(parts[3]))
      [] OTHER -> Raise("TypeError")

\* MSF.Create
MSF_Create(val) ==
    CASE val.type = "int" -> MSF_init(IntV(0), IntV(0), val)
      [] val.type = "str" ->
            LET parts == Split(val.val, ":")
            IN  IF Len(parts) # 3 THEN Raise("ValueError")
                ELSE MSF_init(StrV(parts[1]), StrV(parts[2]), StrV(parts[3]))
      [] OTHER -> Raise("TypeError")

\* MSF.TotalFrames
TotalFrames(self) ==
    self.f + (self.s * FramesPerSecond) + (self.m * SecondsPerMinute * FramesPerSecond)

----------------------------------------------------------------------------
(* The grammar of lex.py: one operator per p_ function.  p is the sequence *)
(* of the values of the right-hand side, so p[1] here is p[1] there, and   *)
(* the result is the value assigned to p[0].                                *)

\* WHOLE : CD_DA CATTEXT HEADER TRKS
p_WHOLE(p) == DictV([catalog |-> p[2], header |-> p[3], tracks |-> p[4]])

\* WHOLE : CD_DA HEADER TRKS
p_WHOLE_header(p) == DictV([catalog |-> None, header |-> p[2], tracks |-> p[3]])

\* WHOLE : CD_DA CATTEXT TRKS
p_WHOLE_catalog(p) == DictV([catalog |-> p[2], header |-> None, tracks |-> p[3]])

\* WHOLE : CD_DA TRKS
p_WHOLE_tracks(p) == DictV([catalog |-> None, header |-> None, tracks |-> p[2]])

\* CATTEXT : CATALOG TEXT
p_CATTEXT(p) == p[2]

\* HEADER : CD_TEXT LCURLY LMAP CDLANGS RCURLY
p_HEADER(p) == DictV([map |-> p[3], langs |-> p[4]])

\* LMAP : LANGUAGE_MAP LCURLY LMAPOPTS RCURLY
p_LMAP(p) == p[3]

\* LMAPOPTS : LMAPOPTS LMAPOPT
p_LMAPOPTS(p) == ListAdd(p[1], ListV(<<p[2]>>))

\* LMAPOPTS : LMAPOPT
p_LMAPOPTS_term(p) == ListV(<<p[1]>>)

\* LMAPOPT : NUMBER COLON NUMBER
p_LMAPOPT(p) == TupleV(<<p[1], p[3]>>)

\* TRKS : TRKS TRK
p_TRKS(p) == ListAdd(p[1], ListV(<<p[2]>>))

\* TRKS : TRK
p_TRKS_term(p) == ListV(<<p[1]>>)

\* TRK : COMMENT TRACK AUDIO CPY PE TWO_CHANNEL_AUDIO ISRC TEXT CDT FILELINE
p_TRK_CDT_ISRC(p) == DictV([comment |-> p[1], copy |-> p[4], preemphasis |-> p[5], channels |-> IntV(2), isrc |-> p[8], text |-> p[9], path |-> p[10]])

\* TRK : COMMENT TRACK AUDIO CPY PE TWO_CHANNEL_AUDIO ISRC TEXT FILELINE
p_TRK_ISRC(p) == DictV([comment |-> p[1], copy |-> p[4], preemphasis |-> p[5], channels |-> IntV(2), isrc |-> p[8], text |-> None, path |-> p[9]])

\* TRK : COMMENT TRACK AUDIO CPY PE TWO_CHANNEL_AUDIO CDT FILELINE
p_TRK_CDT(p) == DictV([comment |-> p[1], copy |-> p[4], preemphasis |-> p[5], channels |-> IntV(2), isrc |-> None, text |-> p[7], path |-> p[8]])

\* TRK : COMMENT TRACK AUDIO CPY PE TWO_CHANNEL_AUDIO FILELINE
p_TRK(p) == DictV([comment |-> p[1], copy |-> p[4], preemphasis |-> p[5], channels |-> IntV(2), isrc |-> None, text |-> None, path |-> p[7]])

\* CPY : NO COPY
p_CPY_NO(p) == BoolV(FALSE)

\* CPY : COPY
p_CPY_YES(p) == BoolV(TRUE)

\* PE : NO PRE_EMPHASIS
p_PE_NO(p) == BoolV(FALSE)

\* PE : PRE_EMPHASIS
p_PE_YES(p) == BoolV(TRUE)

\* CDT : CD_TEXT LCURLY CDLANGS RCURLY
p_CDT(p) == p[3]

\* CDLANGS : CDLANGS CDLANG
p_CDLANGS(p) == ListAdd(p[1], ListV(<<p[2]>>))

\* CDLANGS : CDLANG
p_CDLANGS_term(p) == ListV(<<p[1]>>)

\* CDLANG : LANGUAGE NUMBER LCURLY CDLANGOPTS RCURLY
p_CDLANG(p) == DictV([langnum |-> p[2], opts |-> p[4]])

\* CDLANGOPTS : CDLANGOPTS CDLANGOPT
p_CDLANGOPTS(p) == ListAdd(p[1], ListV(<<p[2]>>))

\* CDLANGOPTS : CDLANGOPT
p_CDLANGOPTS_term(p) == ListV(<<p[1]>>)

\* CDLANGOPT : TITLE TEXT
p_CDLANGOPT_title(p) == TupleV(<<StrV("title"), p[2]>>)

\* CDLANGOPT : PERFORMER TEXT
p_CDLANGOPT_performer(p) == TupleV(<<StrV("performer"), p[2]>>)

\* CDLANGOPT : MESSAGE TEXT
p_CDLANGOPT_message(p) == TupleV(<<StrV("message"), p[2]>>)

\* CDLANGOPT : GENRE LCURLY NUMBERCSV RCURLY
p_CDLANGOPT_genre(p) == TupleV(<<StrV("genre"), p[3]>>)

\* CDLANGOPT : SIZE_INFO LCURLY NUMBERCSV RCURLY
p_CDLANGOPT_sizeinfo(p) == TupleV(<<StrV("sizeinfo"), p[3]>>)

\* CDLANGOPT : SONGWRITER TEXT
p_CDLANGOPT_songwriter(p) == TupleV(<<StrV("songwriter"), p[2]>>)

\* CDLANGOPT : COMPOSER TEXT
p_CDLANGOPT_composer(p) == TupleV(<<StrV("composer"), p[2]>>)

\* CDLANGOPT : ARRANGER TEXT
p_CDLANGOPT_arranger(p) == TupleV(<<StrV("arranger"), p[2]>>)

\* CDLANGOPT : DISC_ID TEXT
p_CDLANGOPT_discid(p) == TupleV(<<StrV("discid"), p[2]>>)

\* CDLANGOPT : UPC_EAN TEXT
p_CDLANGOPT_upcean(p) == TupleV(<<StrV("upc_ean"), p[2]>>)

\* CDLANGOPT : ISRC TEXT
p_CDLANGOPT_isrc(p) == TupleV(<<StrV("isrc"), p[2]>>)

\* CDLANGOPT : RESERVED4 TEXT
p_CDLANGOPT_reserved4(p) == TupleV(<<StrV("reserved4"), p[2]>>)

\* CDLANGOPT : TOC_INFO1 LCURLY NUMBERCSV RCURLY
p_CDLANGOPT_tocinfo1(p) == TupleV(<<StrV("tocinfo1"), p[3]>>)

\* NUMBERCSV : NUMBERCSV COMMA NUMBER
p_NUMBERCSV(p) == ListAdd(p[1], ListV(<<p[3]>>))

\* NUMBERCSV : NUMBER
p_NUMBERCSV_term(p) == ListV(<<p[1]>>)

\* FILELINE : FILE TEXT TIMES START TIME INDICES
p_FILELINE_start_index(p) == DictV([path |-> p[2], times |-> p[3], start |-> p[5], indices |-> p[6]])

\* FILELINE : FILE TEXT TIMES INDICES
p_FILELINE_index(p) == DictV([path |-> p[2], times |-> p[3], indices |-> p[4]])

\* FILELINE : FILE TEXT TIMES START TIME
p_FILELINE_start(p) == DictV([path |-> p[2], times |-> p[3], start |-> p[5]])

\* FILELINE : FILE TEXT TIMES
p_FILELINE(p) == DictV([path |-> p[2], times |-> p[3]])

\* INDICES : INDICES INDEX TIME
\* (list.append returns None, and that is what p[0] is given)
p_INDICES(p) == ListAppend(p[1], p[3])

\* INDICES : INDEX TIME
p_INDICES_index(p) == ListV(<<p[2]>>)

\* TIMES : NUMBER TIME
p_TIMES_number(p) == TupleV(<<p[1], p[2]>>)

\* TIMES : TIME TIME
p_TIMES_time(p) == TupleV(<<p[1], p[2]>>)

\* the production of each p_ function, in the order of definition
Productions ==
  <<
    [name |-> "p_WHOLE", lhs |-> "WHOLE",
     rhs |-> <<"CD_DA", "CATTEXT", "HEADER", "TRKS">>],
    [name |-> "p_WHOLE_header", lhs |-> "WHOLE",
     rhs |-> <<"CD_DA", "HEADER", "TRKS">>],
    [name |-> "p_WHOLE_catalog", lhs |-> "WHOLE",
     rhs |-> <<"CD_DA", "CATTEXT", "TRKS">>],
    [name |-> "p_WHOLE_tracks", lhs |-> "WHOLE",
     rhs |-> <<"CD_DA", "TRKS">>],
    [name |-> "p_CATTEXT", lhs |-> "CATTEXT",
     rhs |-> <<"CATALOG", "TEXT">>],
    [name |-> "p_HEADER", lhs |-> "HEADER",
     rhs |-> <<"CD_TEXT", "LCURLY", "LMAP", "CDLANGS", "RCURLY">>],
    [name |-> "p_LMAP", lhs |-> "LMAP",
     rhs |-> <<"LANGUAGE_MAP", "LCURLY", "LMAPOPTS", "RCURLY">>],
    [name |-> "p_LMAPOPTS", lhs |-> "LMAPOPTS",
     rhs |-> <<"LMAPOPTS", "LMAPOPT">>],
    [name |-> "p_LMAPOPTS_term", lhs |-> "LMAPOPTS",
     rhs |-> <<"LMAPOPT">>],
    [name |-> "p_LMAPOPT", lhs |-> "LMAPOPT",
     rhs |-> <<"NUMBER", "COLON", "NUMBER">>],
    [name |-> "p_TRKS", lhs |-> "TRKS",
     rhs |-> <<"TRKS", "TRK">>],
    [name |-> "p_TRKS_term", lhs |-> "TRKS",
     rhs |-> <<"TRK">>],
    [name |-> "p_TRK_CDT_ISRC", lhs |-> "TRK",
     rhs |-> <<"COMMENT", "TRACK", "AUDIO", "CPY", "PE", "TWO_CHANNEL_AUDIO", "ISRC", "TEXT", "CDT", "FILELINE">>],
    [name |-> "p_TRK_ISRC", lhs |-> "TRK",
     rhs |-> <<"COMMENT", "TRACK", "AUDIO", "CPY", "PE", "TWO_CHANNEL_AUDIO", "ISRC", "TEXT", "FILELINE">>],
    [name |-> "p_TRK_CDT", lhs |-> "TRK",
     rhs |-> <<"COMMENT", "TRACK", "AUDIO", "CPY", "PE", "TWO_CHANNEL_AUDIO", "CDT", "FILELINE">>],
    [name |-> "p_TRK", lhs |-> "TRK",
     rhs |-> <<"COMMENT", "TRACK", "AUDIO", "CPY", "PE", "TWO_CHANNEL_AUDIO", "FILELINE">>],
    [name |-> "p_CPY_NO", lhs |-> "CPY",
     rhs |-> <<"NO", "COPY">>],
    [name |-> "p_CPY_YES", lhs |-> "CPY",
     rhs |-> <<"COPY">>],
    [name |-> "p_PE_NO", lhs |-> "PE",
     rhs |-> <<"NO", "PRE_EMPHASIS">>],
    [name |-> "p_PE_YES", lhs |-> "PE",
     rhs |-> <<"PRE_EMPHASIS">>],
    [name |-> "p_CDT", lhs |-> "CDT",
     rhs |-> <<"CD_TEXT", "LCURLY", "CDLANGS", "RCURLY">>],
    [name |-> "p_CDLANGS", lhs |-> "CDLANGS",
     rhs |-> <<"CDLANGS", "CDLANG">>],
    [name |-> "p_CDLANGS_term", lhs |-> "CDLANGS",
     rhs |-> <<"CDLANG">>],
    [name |-> "p_CDLANG", lhs |-> "CDLANG",
     rhs |-> <<"LANGUAGE", "NUMBER", "LCURLY", "CDLANGOPTS", "RCURLY">>],
    [name |-> "p_CDLANGOPTS", lhs |-> "CDLANGOPTS",
     rhs |-> <<"CDLANGOPTS", "CDLANGOPT">>],
    [name |-> "p_CDLANGOPTS_term", lhs |-> "CDLANGOPTS",
     rhs |-> <<"CDLANGOPT">>],
    [name |-> "p_CDLANGOPT_title", lhs |-> "CDLANGOPT",
     rhs |-> <<"TITLE", "TEXT">>],
    [name |-> "p_CDLANGOPT_performer", lhs |-> "CDLANGOPT",
     rhs |-> <<"PERFORMER", "TEXT">>],
    [name |-> "p_CDLANGOPT_message", lhs |-> "CDLANGOPT",
     rhs |-> <<"MESSAGE", "TEXT">>],
    [name |-> "p_CDLANGOPT_genre", lhs |-> "CDLANGOPT",
     rhs |-> <<"GENRE", "LCURLY", "NUMBERCSV", "RCURLY">>],
    [name |-> "p_CDLANGOPT_sizeinfo", lhs |-> "CDLANGOPT",
     rhs |-> <<"SIZE_INFO", "LCURLY", "NUMBERCSV", "RCURLY">>],
    [name |-> "p_CDLANGOPT_songwriter", lhs |-> "CDLANGOPT",
     rhs |-> <<"SONGWRITER", "TEXT">>],
    [name |-> "p_CDLANGOPT_composer", lhs |-> "CDLANGOPT",
     rhs |-> <<"COMPOSER", "TEXT">>],
    [name |-> "p_CDLANGOPT_arranger", lhs |-> "CDLANGOPT",
     rhs |-> <<"ARRANGER", "TEXT">>],
    [name |-> "p_CDLANGOPT_discid", lhs |-> "CDLANGOPT",
     rhs |-> <<"DISC_ID", "TEXT">>],
    [name |-> "p_CDLANGOPT_upcean", lhs |-> "CDLANGOPT",
     rhs |-> <<"UPC_EAN", "TEXT">>],
    [name |-> "p_CDLANGOPT_isrc", lhs |-> "CDLANGOPT",
     rhs |-> <<"ISRC", "TEXT">>],
    [name |-> "p_CDLANGOPT_reserved4", lhs |-> "CDLANGOPT",
     rhs |-> <<"RESERVED4", "TEXT">>],
    [name |-> "p_CDLANGOPT_tocinfo1", lhs |-> "CDLANGOPT",
     rhs |-> <<"TOC_INFO1", "LCURLY", "NUMBERCSV", "RCURLY">>],
    [name |-> "p_NUMBERCSV", lhs |-> "NUMBERCSV",
     rhs |-> <<"NUMBERCSV", "COMMA", "NUMBER">>],
    [name |-> "p_NUMBERCSV_term", lhs |-> "NUMBERCSV",
     rhs |-> <<"NUMBER">>],
    [name |-> "p_FILELINE_start_index", lhs |-> "FILELINE",
     rhs |-> <<"FILE", "TEXT", "TIMES", "START", "TIME", "INDICES">>],
    [name |-> "p_FILELINE_index", lhs |-> "FILELINE",
     rhs |-> <<"FILE", "TEXT", "TIMES", "INDICES">>],
    [name |-> "p_FILELINE_start", lhs |-> "FILELINE",
     rhs |-> <<"FILE", "TEXT", "TIMES", "START", "TIME">>],
    [name |-> "p_FILELINE", lhs |-> "FILELINE",
     rhs |-> <<"FILE", "TEXT", "TIMES">>],
    [name |-> "p_INDICES", lhs |-> "INDICES",
     rhs |-> <<"INDICES", "INDEX", "TIME">>],
    [name |-> "p_INDICES_index", lhs |-> "INDICES",
     rhs |-> <<"INDEX", "TIME">>],
    [name |-> "p_TIMES_number", lhs |-> "TIMES",
     rhs |-> <<"NUMBER", "TIME">>],
    [name |-> "p_TIMES_time", lhs |-> "TIMES",
     rhs |-> <<"TIME", "TIME">>]
  >>

\* the call of the p_ function of a production
Callable(name, p) ==
    CASE name = "p_WHOLE" -> p_WHOLE(p)
      [] name = "p_WHOLE_header" -> p_WHOLE_header(p)
      [] name = "p_WHOLE_catalog" -> p_WHOLE_catalog(p)
      [] name = "p_WHOLE_tracks" -> p_WHOLE_tracks(p)
      [] name = "p_CATTEXT" -> p_CATTEXT(p)
      [] name = "p_HEADER" -> p_HEADER(p)
      [] name = "p_LMAP" -> p_LMAP(p)
      [] name = "p_LMAPOPTS" -> p_LMAPOPTS(p)
      [] name = "p_LMAPOPTS_term" -> p_LMAPOPTS_term(p)
      [] name = "p_LMAPOPT" -> p_LMAPOPT(p)
      [] name = "p_TRKS" -> p_TRKS(p)
      [] name = "p_TRKS_term" -> p_TRKS_term(p)
      [] name = "p_TRK_CDT_ISRC" -> p_TRK_CDT_ISRC(p)
      [] name = "p_TRK_ISRC" -> p_TRK_ISRC(p)
      [] name = "p_TRK_CDT" -> p_TRK_CDT(p)
      [] name = "p_TRK" -> p_TRK(p)
      [] name = "p_CPY_NO" -> p_CPY_NO(p)
      [] name = "p_CPY_YES" -> p_CPY_YES(p)
      [] name = "p_PE_NO" -> p_PE_NO(p)
      [] name = "p_PE_YES" -> p_PE_YES(p)
      [] name = "p_CDT" -> p_CDT(p)
      [] name = "p_CDLANGS" -> p_CDLANGS(p)
      [] name = "p_CDLANGS_term" -> p_CDLANGS_term(p)
      [] name = "p_CDLANG" -> p_CDLANG(p)
      [] name = "p_CDLANGOPTS" -> p_CDLANGOPTS(p)
      [] name = "p_CDLANGOPTS_term" -> p_CDLANGOPTS_term(p)
      [] name = "p_CDLANGOPT_title" -> p_CDLANGOPT_title(p)
      [] name = "p_CDLANGOPT_performer" -> p_CDLANGOPT_performer(p)
      [] name = "p_CDLANGOPT_message" -> p_CDLANGOPT_message(p)
      [] name = "p_CDLANGOPT_genre" -> p_CDLANGOPT_genre(p)
      [] name = "p_CDLANGOPT_sizeinfo" -> p_CDLANGOPT_sizeinfo(p)
      [] name = "p_CDLANGOPT_songwriter" -> p_CDLANGOPT_songwriter(p)
      [] name = "p_CDLANGOPT_composer" -> p_CDLANGOPT_composer(p)
      [] name = "p_CDLANGOPT_arranger" -> p_CDLANGOPT_arranger(p)
      [] name = "p_CDLANGOPT_discid" -> p_CDLANGOPT_discid(p)
      [] name = "p_CDLANGOPT_upcean" -> p_CDLANGOPT_upcean(p)
      [] name = "p_CDLANGOPT_isrc" -> p_CDLANGOPT_isrc(p)
      [] name = "p_CDLANGOPT_reserved4" -> p_CDLANGOPT_reserved4(p)
      [] name = "p_CDLANGOPT_tocinfo1" -> p_CDLANGOPT_tocinfo1(p)
      [] name = "p_NUMBERCSV" -> p_NUMBERCSV(p)
      [] name = "p_NUMBERCSV_term" -> p_NUMBERCSV_term(p)
      [] name = "p_FILELINE_start_index" -> p_FILELINE_start_index(p)
      [] name = "p_FILELINE_index" -> p_FILELINE_index(p)
      [] name = "p_FILELINE_start" -> p_FILELINE_start(p)
      [] name = "p_FILELINE" -> p_FILELINE(p)
      [] name = "p_INDICES" -> p_INDICES(p)
      [] name = "p_INDICES_index" -> p_INDICES_index(p)
      [] name = "p_TIMES_number" -> p_TIMES_number(p)
      [] name = "p_TIMES_time" -> p_TIMES_time(p)

----------------------------------------------------------------------------
(* yacc.yacc(): the LR tables PLY builds from the productions.  The states *)
(* are the LR(0) item sets; the lookahead of a reduction is the LALR(1)    *)
(* lookahead, which for this grammar (no nonterminal has two contexts with *)
(* different followers, no production is empty) is the follow set of the   *)
(* production's left-hand side.  The operators take the grammar G and the  *)
(* tables built so far as arguments.                                       *)

EndMarker == "$end"

\* production 0 of PLY, S' -> WHOLE, then the productions of the p_ functions
Grammar ==
    <<[name |-> "S'", lhs |-> "S'", rhs |-> <<"WHOLE">>]>> \o Productions

NonTerminalsOf(G) == {G[q].lhs : q \in DOMAIN G}

TerminalsOf(G) ==
    UNION {{G[q].rhs[k] : k \in DOMAIN G[q].rhs} : q \in DOMAIN G} \ NonTerminalsOf(G)

NonTerminals == NonTerminalsOf(Grammar)
Terminals == TerminalsOf(Grammar)

\* the symbol after the dot of an item, "" when the dot is at the end
NextSym(G, it) ==
    LET r == G[it.p].rhs
    IN  IF it.d < Len(r) THEN r[it.d + 1] ELSE ""

RECURSIVE LRClosure(_, _)
LRClosure(G, I) ==
    LET add == {[p |-> q, d |-> 0] :
                   q \in {q \in DOMAIN G : G[q].lhs \in {NextSym(G, it) : it \in I}}}
    IN  IF add \subseteq I THEN I ELSE LRClosure(G, I \cup add)

LRGoto(G, I, X) ==
    LRClosure(G, {[p |-> it.p, d |-> it.d + 1] : it \in {it \in I : NextSym(G, it) = X}})

RECURSIVE SetToSeq(_)
SetToSeq(S) ==
    IF S = {} THEN <<>>
    ELSE LET x == CHOOSE x \in S : TRUE IN <<x>> \o SetToSeq(S \ {x})

RECURSIVE LRBuild(_, _, _)
LRBuild(G, seq, i) ==
    IF i > Len(seq) THEN seq
    ELSE LET succ == {LRGoto(G, seq[i], X) : X \in {NextSym(G, it) : it \in seq[i]} \ {""}}
             new == succ \ {seq[k] : k \in 1..Len(seq)}
         IN  LRBuild(G, seq \o SetToSeq(new), i + 1)

\* the item sets, numbered from 1; state 1 is the start state
LRStates == LRBuild(Grammar, <<LRClosure(Grammar, {[p |-> 1, d |-> 0]})>>, 1)

\* goto[state][symbol], on terminals (the shifts) and nonterminals alike
GotoTable(G, states) ==
    [k \in DOMAIN states |->
        [X \in {NextSym(G, it) : it \in states[k]} \ {""} |->
            CHOOSE n \in DOMAIN states : states[n] = LRGoto(G, states[k], X)]]

LRGotoTab == GotoTable(Grammar, LRStates)

RECURSIVE FirstOf(_, _, _)
FirstOf(G, X, seen) ==
    IF \A q \in DOMAIN G : G[q].lhs # X THEN {X}
    ELSE UNION {FirstOf(G, G[q].rhs[1], seen \cup {X}) :
                   q \in {q \in DOMAIN G : G[q].lhs = X /\ G[q].rhs[1] \notin seen \cup {X}}}

FollowStep(G, F) ==
    [A \in DOMAIN F |->
        F[A] \cup UNION {
            UNION {IF G[q].rhs[k] # A THEN {}
                   ELSE IF k < Len(G[q].rhs) THEN FirstOf(G, G[q].rhs[k + 1], {})
                   ELSE F[G[q].lhs] : k \in DOMAIN G[q].rhs}
            : q \in DOMAIN G}]

RECURSIVE FollowFix(_, _)
FollowFix(G, F) ==
    LET next == FollowStep(G, F) IN IF next = F THEN F ELSE FollowFix(G, next)

Follow == FollowFix(Grammar, [A \in NonTerminals |-> IF A = "S'" THEN {EndMarker} ELSE {}])

\* the productions with the dot at the end in an item set
Reductions(G, I) == {it.p : it \in {it \in I : NextSym(G, it) = ""}}

\* action[state][token type]: a shift where goto has the terminal, a
\* reduction on the lookahead of a finished production, accept for S';
\* a token type without an entry is a syntax error
ActionTable(G, states, goto, follow, terminals) ==
    [k \in DOMAIN states |->
        [t \in ((DOMAIN goto[k]) \cap terminals)
                \cup UNION {follow[G[q].lhs] : q \in Reductions(G, states[k])} |->
            IF t \in DOMAIN goto[k] THEN [kind |-> "shift", to |-> goto[k][t]]
            ELSE LET q == CHOOSE q \in Reductions(G, states[k]) : t \in follow[G[q].lhs]
                 IN  IF q = 1 THEN [kind |-> "accept"]
                     ELSE [kind |-> "reduce", p |-> q]]]

LRAction == ActionTable(Grammar, LRStates, LRGotoTab, Follow, Terminals)

\* the table has no shift/reduce and no reduce/reduce conflict
ConflictFree(G, states, goto, follow) ==
    \A k \in DOMAIN states :
        \A q \in Reductions(G, states[k]) :
            /\ follow[G[q].lhs] \cap DOMAIN goto[k] = {}
            /\ \A r \in Reductions(G, states[k]) \ {q} :
                  follow[G[q].lhs] \cap follow[G[r].lhs] = {}

NoConflicts == ConflictFree(Grammar, LRStates, LRGotoTab, Follow)

\* a state whose only action is one reduction: PLY reduces there without
\* reading the lookahead
Defaulted(action) ==
    {k \in DOMAIN action :
        /\ Cardinality(DOMAIN action[k]) = 1
        /\ \A t \in DOMAIN action[k] : action[k][t].kind = "reduce"}

DefaultedStates == Defaulted(LRAction)

----------------------------------------------------------------------------
(* The wrapper classes of __init__.py *)

\* p[key]: TypeError when p is None, KeyError when the dictionary has no
\* such key
GetItem(p, key) ==
    IF p.type # "dict" THEN Raise("TypeError")
    ELSE IF key \in DOMAIN p.val THEN p.val[key]
    ELSE Raise("KeyError")

UpperCase == "ABCDEFGHIJKLMNOPQRSTUVWXYZ"
LowerCase == "abcdefghijklmnopqrstuvwxyz"

\* s.lower()
RECURSIVE Lower(_)
Lower(s) ==
    IF Len(s) = 0 THEN ""
    ELSE LET ch == CharAt(s, 1)
             hit == {i \in 1..Len(UpperCase) : CharAt(UpperCase, i) = ch}
         IN  (IF hit = {} THEN ch ELSE CharAt(LowerCase, CHOOSE i \in hit : TRUE))
                 \o Lower(Tail(s))

\* the rows of _langcodes that the language maps drawn below name
_langcodes ==
    (0 :> <<"??", "Unknown">>) @@ (8 :> <<"DE", "German">>) @@
    (9 :> <<"EN", "English">>) @@ (15 :> <<"FR", "French">>)

LangCodeToName(idx) ==
    IF idx \in DOMAIN _langcodes THEN StrV(_langcodes[idx][2]) ELSE None

LangCodeTo2Letter(idx) ==
    IF idx \in DOMAIN _langcodes THEN StrV(_langcodes[idx][1]) ELSE None

\* os = {}; for o in opts: os[o[0]] = o[1]  -- a later key overwrites
RECURSIVE OptsDict(_, _)
OptsDict(opts, os) ==
    IF Len(opts) = 0 THEN os
    ELSE LET o == Head(opts).val
         IN  OptsDict(Tail(opts), (o[1].val :> o[2]) @@ os)

\* meta = {}; for entry in langs: meta[entry['langnum']] = the dict of its opts
RECURSIVE MetaDict(_, _)
MetaDict(langs, meta) ==
    IF Len(langs) = 0 THEN meta
    ELSE LET entry == Head(langs).val
         IN  MetaDict(Tail(langs),
                      (entry.langnum.val :> DictV(OptsDict(entry.opts.val, <<>>))) @@ meta)

\* for entry in map: langmap[entry[0]] = (entry[1], 2-letter code, name)
RECURSIVE LangMapDict(_, _)
LangMapDict(lmap, langmap) ==
    IF Len(lmap) = 0 THEN langmap
    ELSE LET entry == Head(lmap).val
         IN  LangMapDict(Tail(lmap),
                (entry[1].val :> TupleV(<<entry[2], LangCodeTo2Letter(entry[2].val),
                                          LangCodeToName(entry[2].val)>>)) @@ langmap)

\* Header.__init__: p is the 'header' entry of the root record
Header_init(p) ==
    LET cat == GetItem(p, "catalog")
        lmap == GetItem(p, "map")
        langs == GetItem(p, "langs")
    IN  IF IsExc(cat) THEN cat
        ELSE IF IsExc(lmap) THEN lmap
        ELSE IF lmap.type # "list" THEN Raise("TypeError")
        ELSE IF IsExc(langs) THEN langs
        ELSE IF langs.type # "list" THEN Raise("TypeError")
        ELSE [type |-> "Header",
              _catalog |-> cat,
              _langmap |-> DictV(LangMapDict(lmap.val, <<>>)),
              _meta |-> DictV(MetaDict(langs.val, <<>>))]

\* the lines of Track.__init__ that set _num: None unless the comment is
\* "track <n>" in any case
Track_num(comment) ==
    LET parts == Split(comment.val, " ")
    IN  IF Len(parts) = 2 /\ Lower(parts[1]) = "track" THEN ToInt(StrV(parts[2]))
        ELSE None

\* Track.__init__: p is one record of the root record's 'tracks'
Track_init(p) ==
    LET num == Track_num(p.val.comment)
        text == p.val.text
        filestart == MSF_Create(p.val.path.val.times.val[1])
        fileduration == MSF_Create(p.val.path.val.times.val[2])
    IN  IF IsExc(num) THEN num
        ELSE IF text.type # "list" THEN Raise("TypeError")
        ELSE IF IsExc(filestart) THEN filestart
        ELSE IF IsExc(fileduration) THEN fileduration
        ELSE [type |-> "Track",
              _num |-> num,
              _copy |-> p.val.copy,
              _preemphasis |-> p.val.preemphasis,
              _channels |-> p.val.channels,
              _meta |-> DictV(MetaDict(text.val, <<>>)),
              _isrc |-> p.val.isrc,
              _filepath |-> p.val.path.val.path,
              _filestart |-> filestart,
              _fileduration |-> fileduration,
              _fileend |-> MSF_add(filestart, fileduration)]

\* ts = []; for track in tracks: ts.append(Track(track)) -- the first
\* exception ends the loop
RECURSIVE TrackList(_, _)
TrackList(tracks, ts) ==
    IF Len(tracks) = 0 THEN ListV(ts)
    ELSE LET t == Track_init(Head(tracks))
         IN  IF IsExc(t) THEN t ELSE TrackList(Tail(tracks), Append(ts, t))

\* TOC.parse after yaccer has returned p: the TOC object with _header and
\* _tracks assigned, or the exception that left it without them
TOC_parse(p) ==
    LET h == Header_init(GetItem(p, "header"))
        ts == TrackList(GetItem(p, "tracks").val, <<>>)
    IN  IF IsExc(h) THEN h
        ELSE IF IsExc(ts) THEN ts
        ELSE [type |-> "TOC", _header |-> h, _tracks |-> ts]

\* x == y on None, int and str values: values of different types differ
PyEq(x, y) == x.type = y.type /\ x = y

\* the property Track.Number
Track_Number(track) == track._num

\* the property TOC.Tracks
TOC_Tracks(toc_) == toc_._tracks

\* the loop of TOC.GetTrack over self._tracks: at the first track whose
\* Number equals num it evaluates the name trac, which nothing binds
RECURSIVE GetTrackFrom(_, _)
GetTrackFrom(tracks, n) ==
    IF Len(tracks) = 0 THEN None
    ELSE IF PyEq(Track_Number(Head(tracks)), n) THEN Raise("NameError")
    ELSE GetTrackFrom(Tail(tracks), n)

\* TOC.GetTrack(self, num)
GetTrack(toc_, n) == GetTrackFrom(toc_._tracks.val, n)

----------------------------------------------------------------------------
(* Specification Spec: a client of class MSF.  It is handed three raw      *)
(* triples, builds the three MSF objects, adds them, formats the first and *)
(* reads the string back, and builds the same time from a frame count and  *)
(* from an M:S:F literal, directly and through Track.                      *)

MaxM == 1
MaxS == 61
MaxF == 76
MaxPad == 2

Triples == (0..MaxM) \X (0..MaxS) \X (0..MaxF)

\* the second and the third operand of the sums: the corners of Triples
Operands2 == {<<0, 0, 0>>, <<0, SecondsPerMinute - 1, FramesPerSecond - 1>>, <<MaxM, MaxS, MaxF>>}
Operands3 == {<<MaxM, SecondsPerMinute - 1, MaxF>>}

\* f + s*75 + m*60*75 of a raw triple
RawFrames(t) ==
    t[3] + t[2] * FramesPerSecond + t[1] * SecondsPerMinute * FramesPerSecond

New(t) == MSF_init(IntV(t[1]), IntV(t[2]), IntV(t[3]))

\* the digits of n, padded with zeros to at least w characters
RECURSIVE PadTo(_, _)
PadTo(s, w) == IF Len(s) < w THEN PadTo("0" \o s, w) ELSE s

ZeroPad(n, w) == PadTo(DecStr(n), w)

\* a TIME literal \d+:\d+:\d+ naming the raw triple t
TimeLiteral(t, w) == ZeroPad(t[1], w) \o ":" \o ZeroPad(t[2], w) \o ":" \o ZeroPad(t[3], w)

\* the value of a CDT with one language block, as the grammar builds it
SomeText ==
    p_CDLANGS_term(<<
        p_CDLANG(<<StrV("LANGUAGE"), IntV(0), StrV("{"),
                   p_CDLANGOPTS_term(<<p_CDLANGOPT_title(<<StrV("TITLE"), StrV("T")>>)>>),
                   StrV("}")>>)>>)

\* the track record of  // Track 1 ... FILE "a.wav" <times>, with or without
\* a CD_TEXT block
TrackRecord(times, withText) ==
    LET fl == p_FILELINE(<<StrV("FILE"), StrV("a.wav"), times>>)
        hd == <<StrV("Track 1"), StrV("TRACK"), StrV("AUDIO"), p_CPY_YES(<<StrV("COPY")>>),
                p_PE_NO(<<StrV("NO"), StrV("PRE_EMPHASIS")>>), StrV("TWO_CHANNEL_AUDIO")>>
    IN  IF withText THEN p_TRK_CDT(hd \o <<SomeText, fl>>)
        ELSE p_TRK(hd \o <<fl>>)

\* the MSF client when another specification runs
MIdle ==
    /\ raw = <<>> /\ mpc = "idle"
    /\ a = None /\ b = None /\ c = None
    /\ sums = None /\ txt = None /\ back = None /\ forms = None /\ trks = None

\* TOC.parse when another specification runs
PIdle ==
    /\ input = None /\ lexpos = 0 /\ statestack = <<>> /\ symstack = <<>>
    /\ ppc = "idle" /\ result = None /\ toc = None

\* no thread when another specification runs
LIdle == lexers = <<>> /\ lexglobal = 0 /\ threads = <<>>

\* no caller of GetTrack when another specification runs
GIdle == gself = None /\ gnum = None /\ got = None /\ gpc = "idle"

\* no call of lexer when another specification runs
KIdle == ltext = None /\ lself = None /\ ltoks = <<>> /\ lpc = "idle"

MInit ==
    /\ raw \in {<<t1, t2, t3>> : t1 \in Triples, t2 \in Operands2, t3 \in Operands3}
    /\ mpc = "new"
    /\ a = None /\ b = None /\ c = None
    /\ sums = None /\ txt = None /\ back = None /\ forms = None /\ trks = None

\* a = MSF(m,s,f), and b and c alike
MSFNew ==
    /\ mpc = "new"
    /\ a' = New(raw[1]) /\ b' = New(raw[2]) /\ c' = New(raw[3])
    /\ mpc' = "add"
    /\ UNCHANGED <<raw, sums, txt, back, forms, trks>>
    /\ UNCHANGED <<parseVars, lexVars, tocVars, tokVars>>

\* a + b, b + a, (a + b) + c, a + (b + c)
MSFAdd ==
    /\ mpc = "add"
    /\ sums' = [ab |-> MSF_add(a, b), ba |-> MSF_add(b, a),
                ab_c |-> MSF_add(MSF_add(a, b), c), a_bc |-> MSF_add(a, MSF_add(b, c))]
    /\ mpc' = "str"
    /\ UNCHANGED <<raw, a, b, c, txt, back, forms, trks>>
    /\ UNCHANGED <<parseVars, lexVars, tocVars, tokVars>>

\* str(a)
MSFStr ==
    /\ mpc = "str"
    /\ txt' = StrV(MSF_str(a))
    /\ mpc' = "create"
    /\ UNCHANGED <<raw, a, b, c, sums, back, forms, trks>>
    /\ UNCHANGED <<parseVars, lexVars, tocVars, tokVars>>

\* MSF.Create(str(a))
MSFCreateBack ==
    /\ mpc = "create"
    /\ back' = MSF_Create(txt)
    /\ mpc' = "forms"
    /\ UNCHANGED <<raw, a, b, c, sums, txt, forms, trks>>
    /\ UNCHANGED <<parseVars, lexVars, tocVars, tokVars>>

\* MSF.Create(n) and MSF.Create("m:s:f") for the time of raw[1]
MSFCreateForms ==
    /\ mpc = "forms"
    /\ \E w \in 1..MaxPad :
          forms' = [lit |-> TimeLiteral(raw[1], w),
                    n |-> MSF_Create(IntV(RawFrames(raw[1]))),
                    t |-> MSF_Create(StrV(TimeLiteral(raw[1], w)))]
    /\ mpc' = "track"
    /\ UNCHANGED <<raw, a, b, c, sums, txt, back, trks>>
    /\ UNCHANGED <<parseVars, lexVars, tocVars, tokVars>>

\* Track(p) for FILE "a.wav" n d  and for  FILE "a.wav" m:s:f d
TrackNew ==
    /\ mpc = "track"
    /\ \E withText \in BOOLEAN :
          LET d == StrV(TimeLiteral(raw[2], 1))
              pn == p_TIMES_number(<<IntV(RawFrames(raw[1])), d>>)
              pt == p_TIMES_time(<<StrV(forms.lit), d>>)
          IN  trks' = [n |-> Track_init(TrackRecord(pn, withText)),
                       t |-> Track_init(TrackRecord(pt, withText))]
    /\ mpc' = "done"
    /\ UNCHANGED <<raw, a, b, c, sums, txt, back, forms>>
    /\ UNCHANGED <<parseVars, lexVars, tocVars, tokVars>>

MNext == MSFNew \/ MSFAdd \/ MSFStr \/ MSFCreateBack \/ MSFCreateForms \/ TrackNew

Init == MInit /\ PIdle /\ LIdle /\ GIdle /\ KIdle

Spec == Init /\ [][MNext]_vars

IsMSF(x) == x.type = "MSF"
Normalized(x) ==
    /\ x.m >= 0
    /\ x.s \in 0..(SecondsPerMinute - 1)
    /\ x.f \in 0..(FramesPerSecond - 1)

MSFAddition ==
    sums # None =>
        /\ IsMSF(sums.ab) /\ Normalized(sums.ab)
        /\ TotalFrames(sums.ab) = TotalFrames(a) + TotalFrames(b)
        /\ TotalFrames(sums.ba) = TotalFrames(sums.ab)
        /\ sums.ba = sums.ab
        /\ IsMSF(sums.ab_c) /\ Normalized(sums.ab_c)
        /\ TotalFrames(sums.ab_c) = TotalFrames(a) + TotalFrames(b) + TotalFrames(c)
        /\ sums.a_bc = sums.ab_c

\* a sum whose frames and seconds both carry
MSFAdditionWitness ==
    /\ sums # None
    /\ a.f + b.f >= FramesPerSecond
    /\ a.s + b.s + 1 >= SecondsPerMinute
    /\ sums.ab.m = a.m + b.m + 1

\* C3: MSF.Create(str(MSF(m,s,f))) succeeds and has the TotalFrames of
\* MSF(m,s,f).
MSFStringRoundTrip ==
    back # None => (IsMSF(back) /\ TotalFrames(back) = TotalFrames(a))

----------------------------------------------------------------------------
(* Specification SpecParse: TOC.parse(txt) on the token stream lex gives   *)
(* for a TOC text.  The texts are the documents of Docs, whole or with one *)
(* token deleted, replaced or a clause repeated.                           *)

MaxTracks == 2
MaxIndex == 3

Tok(type, value) == [type |-> type, value |-> value]
\* a token of one of the literal rules t_CD_DA .. t_UPC_EAN: its value is
\* the text matched
Kw(type) ==
    Tok(type, StrV(CASE type = "LCURLY" -> "{"
                     [] type = "RCURLY" -> "}"
                     [] type = "COLON" -> ":"
                     [] type = "COMMA" -> ","
                     [] OTHER -> type))
Kws(types) == [k \in DOMAIN types |-> Kw(types[k])]
Text(s) == Tok("TEXT", StrV(s))
Number(n) == Tok("NUMBER", IntV(n))
Time(s) == Tok("TIME", StrV(s))
Comment(s) == Tok("COMMENT", StrV(s))

RECURSIVE Flatten(_)
Flatten(ss) == IF Len(ss) = 0 THEN <<>> ELSE Head(ss) \o Flatten(Tail(ss))

\* CATALOG "1234567890123"
CatalogText == "1234567890123"
CatalogTokens == <<Kw("CATALOG"), Text(CatalogText)>>

\* CD_TEXT { LANGUAGE_MAP { 0:9 1:15 } LANGUAGE 0 { ... } LANGUAGE 1 { ... } }
HeaderTokens ==
    Kws(<<"CD_TEXT", "LCURLY", "LANGUAGE_MAP", "LCURLY">>)
    \o <<Number(0), Kw("COLON"), Number(9), Number(1), Kw("COLON"), Number(15), Kw("RCURLY")>>
    \o <<Kw("LANGUAGE"), Number(0), Kw("LCURLY"),
         Kw("TITLE"), Text("Album"), Kw("PERFORMER"), Text("Band"),
         Kw("MESSAGE"), Text("Hi"),
         Kw("GENRE"), Kw("LCURLY"), Number(1), Kw("COMMA"), Number(2), Kw("RCURLY"),
         Kw("SIZE_INFO"), Kw("LCURLY"), Number(3), Kw("RCURLY"),
         Kw("RCURLY")>>
    \o <<Kw("LANGUAGE"), Number(1), Kw("LCURLY"),
         Kw("SONGWRITER"), Text("S"), Kw("COMPOSER"), Text("C"),
         Kw("ARRANGER"), Text("A"), Kw("DISC_ID"), Text("D"),
         Kw("UPC_EAN"), Text("U"), Kw("RESERVED4"), Text("R"),
         Kw("TOC_INFO1"), Kw("LCURLY"), Number(4), Kw("COMMA"), Number(5),
                                        Kw("COMMA"), Number(6), Kw("RCURLY"),
         Kw("RCURLY"), Kw("RCURLY")>>

\* the shape of a track: which optional clauses it carries.  style picks
\* the copy and pre-emphasis flags and the form of the TIMES pair
TrackShapes ==
    [isrc : BOOLEAN, cdt : BOOLEAN, start : BOOLEAN, nidx : 0..MaxIndex, style : 0..3]

NoCopy(sh) == sh.style % 2 = 1
NoPre(sh) == sh.style \div 2 = 1
NumberForm(sh) == sh.style \in {0, 3}

\* the shape of the track after a track of shape sh: every choice changed
NextShape(sh) ==
    [isrc |-> ~sh.isrc, cdt |-> ~sh.cdt, start |-> ~sh.start,
     nidx |-> (sh.nidx + 1) % (MaxIndex + 1), style |-> (sh.style + 1) % 4]

RECURSIVE ShapesFrom(_, _)
ShapesFrom(sh, n) == IF n = 0 THEN <<>> ELSE <<sh>> \o ShapesFrom(NextShape(sh), n - 1)

IsrcText(i) == "ISRC" \o DecStr(i)
TitleText(i) == "Title" \o DecStr(i)
PathText(i) == "t" \o DecStr(i) \o ".wav"
IndexTime(i, k) == DecStr(i) \o ":" \o DecStr(k) \o ":00"
StartTime(i) == "0:" \o DecStr(i) \o ":74"
DurationTime(i) == DecStr(i) \o ":00:00"

\* // Track i  TRACK AUDIO [NO] COPY [NO] PRE_EMPHASIS TWO_CHANNEL_AUDIO
\*   [ISRC "..."] [CD_TEXT { LANGUAGE 0 { TITLE "..." ISRC "..." } }]
\*   FILE "..." (n | m:s:f) m:s:f [START m:s:f] (INDEX m:s:f)*
TrackTokens(sh, i) ==
    <<Comment("Track " \o DecStr(i)), Kw("TRACK"), Kw("AUDIO")>>
    \o (IF NoCopy(sh) THEN <<Kw("NO")>> ELSE <<>>) \o <<Kw("COPY")>>
    \o (IF NoPre(sh) THEN <<Kw("NO")>> ELSE <<>>) \o <<Kw("PRE_EMPHASIS")>>
    \o <<Kw("TWO_CHANNEL_AUDIO")>>
    \o (IF sh.isrc THEN <<Kw("ISRC"), Text(IsrcText(i))>> ELSE <<>>)
    \o (IF sh.cdt
        THEN <<Kw("CD_TEXT"), Kw("LCURLY"), Kw("LANGUAGE"), Number(0), Kw("LCURLY"),
               Kw("TITLE"), Text(TitleText(i)), Kw("ISRC"), Text(IsrcText(i)),
               Kw("RCURLY"), Kw("RCURLY")>>
        ELSE <<>>)
    \o <<Kw("FILE"), Text(PathText(i)),
         IF NumberForm(sh) THEN Number(i * FramesPerSecond) ELSE Time(StartTime(i)),
         Time(DurationTime(i))>>
    \o (IF sh.start THEN <<Kw("START"), Time(StartTime(i))>> ELSE <<>>)
    \o Flatten([k \in 1..sh.nidx |-> <<Kw("INDEX"), Time(IndexTime(i, k))>>])

\* the token stream of a whole document
DocTokens(d) ==
    <<Kw("CD_DA")>>
    \o (IF d.cat THEN CatalogTokens ELSE <<>>)
    \o (IF d.hdr THEN HeaderTokens ELSE <<>>)
    \o Flatten([i \in 1..Len(d.tracks) |-> TrackTokens(d.tracks[i], i)])

Docs ==
    {[cat |-> ct, hdr |-> hd, tracks |-> ShapesFrom(sh, n)] :
        ct \in BOOLEAN, hd \in BOOLEAN, sh \in TrackShapes, n \in 1..MaxTracks}

\* the documents that are also drawn damaged: a first track with every
\* optional FILE clause
DamagedDocs ==
    {d \in Docs : /\ d.tracks[1].start /\ d.tracks[1].nidx = MaxIndex
                  /\ d.tracks[1].style = 0}

\* one token deleted, one token replaced by the keyword CATALOG, or the two
\* tokens at a place written twice
Damage(toks, kind, at) ==
    CASE kind = "delete" -> SubSeq(toks, 1, at - 1) \o SubSeq(toks, at + 1, Len(toks))
      [] kind = "replace" ->
            SubSeq(toks, 1, at - 1) \o <<Kw("CATALOG")>> \o SubSeq(toks, at + 1, Len(toks))
      [] kind = "repeat" ->
            SubSeq(toks, 1, IF at < Len(toks) THEN at + 1 ELSE at) \o SubSeq(toks, at, Len(toks))
      [] OTHER -> toks

Inputs ==
    {[doc |-> d, damage |-> "none", toks |-> DocTokens(d)] : d \in Docs}
    \cup UNION {
        {[doc |-> d, damage |-> kind, toks |-> Damage(DocTokens(d), kind, at)] :
            kind \in {"delete", "replace", "repeat"}, at \in 1..Len(DocTokens(d))}
        : d \in DamagedDocs}

\* the exception p_error raises
SyntaxErrorRaised == Raise("Exception: Syntax error while yacc'ing the input")

PInit ==
    /\ input \in Inputs
    /\ lexpos = 1
    /\ statestack = <<1>>
    /\ symstack = <<>>
    /\ ppc = "yaccer"
    /\ result = None
    /\ toc = None

\* the type of the lookahead: of the next token, or $end after the last
Lookahead == IF lexpos <= Len(input.toks) THEN input.toks[lexpos].type ELSE EndMarker

State == statestack[Len(statestack)]

\* the action of parser.parse in a state: the defaulted reduction, or the
\* table entry of the lookahead, or none
ActionOf(action, defaulted, state, la) ==
    IF state \in defaulted
    THEN action[state][CHOOSE t \in DOMAIN action[state] : TRUE]
    ELSE IF la \in DOMAIN action[state] THEN action[state][la]
    ELSE [kind |-> "error"]

ParserAction == ActionOf(LRAction, DefaultedStates, State, Lookahead)

\* t > 0: push the state and the token
ParserShift ==
    /\ ppc = "yaccer"
    /\ \E t \in {ParserAction} :
          /\ t.kind = "shift"
          /\ statestack' = Append(statestack, t.to)
    /\ symstack' = Append(symstack, input.toks[lexpos].value)
    /\ lexpos' = lexpos + 1
    /\ UNCHANGED <<input, ppc, result, toc>>
    /\ UNCHANGED <<msfVars, lexVars, tocVars, tokVars>>

\* t < 0: call the p_ function on the top of the stack and push its p[0];
\* an exception of the p_ function leaves parser.parse and yaccer
ParserReduce ==
    /\ ppc = "yaccer"
    /\ \E t \in {ParserAction} :
          /\ t.kind = "reduce"
          /\ \E prod \in {Grammar[t.p]} :
                LET plen == Len(prod.rhs)
                    n == Len(symstack)
                    under == SubSeq(statestack, 1, Len(statestack) - plen)
                IN  \E p0 \in {Callable(prod.name, SubSeq(symstack, n - plen + 1, n))} :
                       IF IsExc(p0)
                       THEN /\ result' = p0
                            /\ ppc' = "raised"
                            /\ UNCHANGED <<statestack, symstack>>
                       ELSE /\ symstack' = Append(SubSeq(symstack, 1, n - plen), p0)
                            /\ statestack' =
                                  Append(under, LRGotoTab[under[Len(under)]][prod.lhs])
                            /\ UNCHANGED <<result, ppc>>
    /\ UNCHANGED <<input, lexpos, toc>>
    /\ UNCHANGED <<msfVars, lexVars, tocVars, tokVars>>

\* t == 0: parser.parse returns the value on top of the stack
ParserAccept ==
    /\ ppc = "yaccer"
    /\ ParserAction.kind = "accept"
    /\ result' = symstack[Len(symstack)]
    /\ ppc' = "returned"
    /\ UNCHANGED <<input, lexpos, statestack, symstack, toc>>
    /\ UNCHANGED <<msfVars, lexVars, tocVars, tokVars>>

\* t is None: p_error is called and raises
p_error ==
    /\ ppc = "yaccer"
    /\ ParserAction.kind = "error"
    /\ result' = SyntaxErrorRaised
    /\ ppc' = "raised"
    /\ UNCHANGED <<input, lexpos, statestack, symstack, toc>>
    /\ UNCHANGED <<msfVars, lexVars, tocVars, tokVars>>

\* TOC.parse after p = yaccer(txt): Header(p['header']), Track(track) for
\* each track, then the two assignments
TOCParse ==
    /\ ppc = "returned"
    /\ \E t \in {TOC_parse(result)} :
          /\ toc' = t
          /\ ppc' = IF IsExc(t) THEN "parse raised" ELSE "parsed"
    /\ UNCHANGED <<input, lexpos, statestack, symstack, result>>
    /\ UNCHANGED <<msfVars, lexVars, tocVars, tokVars>>

PNext == ParserShift \/ ParserReduce \/ ParserAccept \/ p_error \/ TOCParse

InitParse == PInit /\ MIdle /\ LIdle /\ GIdle /\ KIdle

SpecParse == InitParse /\ [][PNext]_vars

(* The language of the grammar, decided on the productions alone: the set  *)
(* of places where a derivation of X that starts after i tokens can end.   *)
RECURSIVE EndsSym(_, _, _), EndsRhs(_, _, _, _), EndsGrow(_, _, _, _)
EndsSym(toks, X, i) ==
    IF X \in Terminals
    THEN IF i < Len(toks) /\ toks[i + 1].type = X THEN {i + 1} ELSE {}
    ELSE LET base == UNION {EndsRhs(toks, Grammar[q].rhs, 1, i) :
                              q \in {q \in DOMAIN Grammar :
                                       Grammar[q].lhs = X /\ Grammar[q].rhs[1] # X}}
         IN  EndsGrow(toks, X, base, base)

EndsRhs(toks, rhs, k, i) ==
    IF k > Len(rhs) THEN {i}
    ELSE UNION {EndsRhs(toks, rhs, k + 1, j) : j \in EndsSym(toks, rhs[k], i)}

\* the left-recursive productions X : X ..., applied until nothing is added
EndsGrow(toks, X, all, frontier) ==
    IF frontier = {} THEN all
    ELSE LET more == UNION {UNION {EndsRhs(toks, Grammar[q].rhs, 2, j) : j \in frontier} :
                              q \in {q \in DOMAIN Grammar :
                                       Grammar[q].lhs = X /\ Grammar[q].rhs[1] = X}}
         IN  EndsGrow(toks, X, all \cup more, more \ all)

\* the token sequence is derivable from WHOLE
Derivable(toks) == Len(toks) \in EndsSym(toks, Productions[1].lhs, 0)

YaccerDone == ppc # "yaccer"

----------------------------------------------------------------------------
(* Properties of SpecParse *)

\* yaccer has returned a parse tree
Returned == ppc \in {"returned", "parsed", "parse raised"}

\* d.get(key): the entry of a dictionary, None when it has none
Field(d, key) == IF key \in DOMAIN d.val THEN d.val[key] ELSE None

Undamaged == input.damage = "none"

\* the records of the tracks in the tree, <<>> when it has no list of them
TreeTracks ==
    IF result.type = "dict" /\ result.val.tracks.type = "list"
    THEN result.val.tracks.val ELSE <<>>

\* the comments of the tracks of the text, in source order
SourceComments == [i \in 1..Len(input.doc.tracks) |-> StrV("Track " \o DecStr(i))]

\* the LR parser against the productions: it returns a tree only for a
\* derivable token sequence, calls p_error only for one that is not, and
\* never leaves one that is not without raising
ParserFollowsGrammar ==
    YaccerDone =>
        /\ (Returned => Derivable(input.toks))
        /\ (result = SyntaxErrorRaised => ~Derivable(input.toks))
        /\ (~Derivable(input.toks) => ppc = "raised")

\* C4: CATALOG and the CD_TEXT header are independently optional: for each
\* of the four combinations followed by one or more well-formed tracks
\* yaccer returns a root record with catalog the CATALOG text or None,
\* header the {map, langs} record or None, and tracks the parsed tracks in
\* source order.
WholeOptionalClauses ==
    (Undamaged /\ YaccerDone) =>
        /\ Returned
        /\ result.type = "dict"
        /\ result.val.catalog = (IF input.doc.cat THEN StrV(CatalogText) ELSE None)
        /\ IF input.doc.hdr
           THEN /\ result.val.header.type = "dict"
                /\ DOMAIN result.val.header.val = {"map", "langs"}
           ELSE result.val.header = None
        /\ [i \in 1..Len(TreeTracks) |-> TreeTracks[i].val.comment] = SourceComments

\* C5: every token sequence that is not derivable from WHOLE makes yaccer
\* raise the syntax error of p_error and return no parse tree.
DeviationIsSyntaxError ==
    (YaccerDone /\ ~Derivable(input.toks)) =>
        /\ ppc = "raised"
        /\ result = SyntaxErrorRaised

\* C6: a track with an ISRC clause, a CD_TEXT block, both or neither parses
\* to a track record with the seven fields comment, copy, preemphasis,
\* channels, isrc, text, path: isrc the ISRC text or None, text the list of
\* language blocks or None, channels 2.
TrackShapesParse ==
    (Undamaged /\ YaccerDone) =>
        /\ Len(TreeTracks) = Len(input.doc.tracks)
        /\ \A i \in 1..Len(input.doc.tracks) :
              LET sh == input.doc.tracks[i]
                  t == TreeTracks[i]
              IN  /\ t.type = "dict"
                  /\ DOMAIN t.val = {"comment", "copy", "preemphasis", "channels",
                                     "isrc", "text", "path"}
                  /\ t.val.channels = IntV(2)
                  /\ t.val.isrc = (IF sh.isrc THEN StrV(IsrcText(i)) ELSE None)
                  /\ IF sh.cdt THEN t.val.text.type = "list" /\ Len(t.val.text.val) = 1
                     ELSE t.val.text = None

\* C7: the file-line record of a FILE line with k >= 1 INDEX clauses has
\* indices the k TIME literals in source order, and None with no INDEX
\* clause; its start gap is the START literal, None with no START clause.
\* (An entry the record does not have is read as None.)
FileLineClauses ==
    (Undamaged /\ YaccerDone) =>
        /\ Len(TreeTracks) = Len(input.doc.tracks)
        /\ \A i \in 1..Len(input.doc.tracks) :
              LET sh == input.doc.tracks[i]
                  fl == TreeTracks[i].val.path
              IN  /\ Field(fl, "indices") =
                        (IF sh.nidx = 0 THEN None
                         ELSE ListV([k \in 1..sh.nidx |-> StrV(IndexTime(i, k))]))
                  /\ Field(fl, "start") =
                        (IF sh.start THEN StrV(StartTime(i)) ELSE None)

\* C10: for every text the grammar accepts TOC.parse completes without
\* raising, and then Tracks has one Track per track record in source order
\* and Header.Catalog is the catalog string, None without a CATALOG clause.
TOCParsePopulates ==
    (Returned /\ ppc # "returned") =>
        /\ ppc = "parsed"
        /\ toc.type = "TOC"
        /\ [i \in 1..Len(toc._tracks.val) |-> toc._tracks.val[i]._num]
              = [i \in 1..Len(TreeTracks) |-> IntV(i)]
        /\ toc._header._catalog = result.val.catalog

----------------------------------------------------------------------------
(* The token rules of lex.py.  Lexer.token() skips the characters of       *)
(* t_ignore, then tries the rules given as functions in the order of their *)
(* definition, then the rules given as strings, longest expression first.  *)
(* A position is a count of characters before it, as lexpos is.            *)

\* the rules given as strings, t_CD_DA .. t_UPC_EAN
LiteralRules ==
    {"CD_DA", "CATALOG", "CD_TEXT", "TRACK", "AUDIO", "NO", "COPY", "PRE_EMPHASIS",
     "TWO_CHANNEL_AUDIO", "ISRC", "RESERVED4", "LCURLY", "RCURLY", "COLON", "START",
     "INDEX", "COMMA", "LANGUAGE", "LANGUAGE_MAP", "FILE", "TITLE", "PERFORMER",
     "MESSAGE", "GENRE", "SIZE_INFO", "SONGWRITER", "COMPOSER", "ARRANGER", "DISC_ID",
     "TOC_INFO1", "UPC_EAN"}

t_ignore == {" ", "\t"}

\* the character after position i, "" at the end of the text
At(s, i) == IF i < Len(s) THEN CharAt(s, i + 1) ELSE ""

StartsWith(s, i, w) == i + Len(w) <= Len(s) /\ SubSeq(s, i + 1, i + Len(w)) = w

\* \d+ at i: the position after the run of digits, i when there is none
RECURSIVE DigitRun(_, _)
DigitRun(s, i) == IF IsDigit(At(s, i)) THEN DigitRun(s, i + 1) ELSE i

\* t_TIME defined after t_NUMBER: the digits are taken by the number rule
\* and the expression of t_TIME never gets to match
TimeEnd_afterNumber(s, i) == i

\* \d+:\d+:\d+ at i: the position after the match, i when there is none
TimeEnd(s, i) ==
    LET e1 == DigitRun(s, i)
        e2 == DigitRun(s, e1 + 1)
        e3 == DigitRun(s, e2 + 1)
    IN  IF /\ e1 > i /\ At(s, e1) = ":" /\ e2 > e1 + 1
           /\ At(s, e2) = ":" /\ e3 > e2 + 1
        THEN e3 ELSE i

\* [^\n]* at i
RECURSIVE LineEnd(_, _)
LineEnd(s, i) == IF i < Len(s) /\ At(s, i) # "\n" THEN LineEnd(s, i + 1) ELSE i

\* \n+ at i
RECURSIVE NewlineRun(_, _)
NewlineRun(s, i) == IF At(s, i) = "\n" THEN NewlineRun(s, i + 1) ELSE i

\* (?:[^"\\]|\\.)*" at i, inside a TEXT: the position after the closing
\* quote, 0 when the text ends before one
RECURSIVE TextEnd(_, _)
TextEnd(s, i) ==
    CASE i >= Len(s) -> 0
      [] At(s, i) = "\"" -> i + 1
      [] At(s, i) = "\\" ->
            IF i + 1 < Len(s) /\ At(s, i + 1) # "\n" THEN TextEnd(s, i + 2) ELSE 0
      [] OTHER -> TextEnd(s, i + 1)

\* s.lstrip()
RECURSIVE LStrip(_)
LStrip(s) ==
    IF Len(s) > 0 /\ CharAt(s, 1) \in {" ", "\t", "\n"} THEN LStrip(Tail(s)) ELSE s

\* s.encode('utf-8').decode('unicode_escape') for ASCII text with the
\* escapes \" \\ \n \t; a backslash before another letter stays
RECURSIVE UnicodeEscape(_)
UnicodeEscape(s) ==
    IF Len(s) = 0 THEN ""
    ELSE IF CharAt(s, 1) = "\\" /\ Len(s) >= 2
    THEN LET ch == CharAt(s, 2)
         IN  (CASE ch = "\"" -> "\""
                [] ch = "\\" -> "\\"
                [] ch = "n" -> "\n"
                [] ch = "t" -> "\t"
                [] OTHER -> "\\" \o ch) \o UnicodeEscape(SubSeq(s, 3, Len(s)))
    ELSE CharAt(s, 1) \o UnicodeEscape(Tail(s))

\* t_TIME: the value is the text matched
t_TIME(value) == Tok("TIME", StrV(value))

\* t_COMMENT: t.value = t.value[2:].lstrip()
t_COMMENT(value) == Tok("COMMENT", StrV(LStrip(SubSeq(value, 3, Len(value)))))

\* t_NUMBER: t.value = int(t.value)
t_NUMBER(value) == Tok("NUMBER", ToInt(StrV(value)))

\* t_TEXT: the quotes cut off, the escapes decoded
t_TEXT(value) == Tok("TEXT", StrV(UnicodeEscape(SubSeq(value, 2, Len(value) - 1))))

\* the exception t_error raises
LexErrorRaised == Raise("Exception: Error lexing input")

\* the rule given as a string that matches at i: of those that match the
\* one with the longest expression, "" when none does
LiteralAt(s, i) ==
    LET hit == {r \in LiteralRules : StartsWith(s, i, Kw(r).value.val)}
    IN  IF hit = {} THEN ""
        ELSE CHOOSE r \in hit :
                \A q \in hit : Len(Kw(q).value.val) <= Len(Kw(r).value.val)

\* one call of Lexer.token() on the text s at lexpos i, up to its return:
\* the token and the position after it, or the end of the text, or the
\* call of t_error
RECURSIVE Match(_, _)
Match(s, i) ==
    IF i >= Len(s) THEN [kind |-> "end", at |-> i, end |-> i]
    ELSE IF At(s, i) \in t_ignore THEN Match(s, i + 1)
    ELSE IF TimeEnd(s, i) > i
    THEN [kind |-> "token", at |-> i, end |-> TimeEnd(s, i),
          tok |-> t_TIME(SubSeq(s, i + 1, TimeEnd(s, i)))]
    ELSE IF StartsWith(s, i, "//")
    THEN [kind |-> "token", at |-> i, end |-> LineEnd(s, i + 2),
          tok |-> t_COMMENT(SubSeq(s, i + 1, LineEnd(s, i + 2)))]
    ELSE IF DigitRun(s, i) > i
    THEN [kind |-> "token", at |-> i, end |-> DigitRun(s, i),
          tok |-> t_NUMBER(SubSeq(s, i + 1, DigitRun(s, i)))]
    ELSE IF At(s, i) = "\"" /\ TextEnd(s, i + 1) > 0
    THEN [kind |-> "token", at |-> i, end |-> TextEnd(s, i + 1),
          tok |-> t_TEXT(SubSeq(s, i + 1, TextEnd(s, i + 1)))]
    ELSE IF At(s, i) = "\n" THEN Match(s, NewlineRun(s, i))
    ELSE IF LiteralAt(s, i) # ""
    THEN [kind |-> "token", at |-> i, end |-> i + Len(Kw(LiteralAt(s, i)).value.val),
          tok |-> Kw(LiteralAt(s, i))]
    ELSE [kind |-> "error", at |-> i, end |-> i]

\* lexer(txt) when nothing else runs: the list of the tokens, or the
\* exception of t_error
RECURSIVE TokensFrom(_, _, _)
TokensFrom(s, i, toks) ==
    LET m == Match(s, i)
    IN  CASE m.kind = "token" -> TokensFrom(s, m.end, Append(toks, m.tok))
          [] m.kind = "error" -> LexErrorRaised
          [] OTHER -> ListV(toks)

Tokens(s) == TokensFrom(s, 0, <<>>)

----------------------------------------------------------------------------
(* Specification SpecThreads: calls of lexer(txt) and yaccer(txt) on       *)
(* threads of one interpreter.  lex.lex() builds a new Lexer and binds the *)
(* functions lex.input and lex.token of the ply.lex module to it;          *)
(* lexer(txt) then calls lex.input through the module and token() on its   *)
(* own Lexer, and parser.parse calls input and token on the Lexer it was   *)
(* handed.  A step is one call into ply; token() is two steps, the match   *)
(* on the attributes it copied and the write of lexpos before it returns.  *)
(* Of a yaccer call the thread keeps the tokens its parser was handed,     *)
(* which decide the tree it returns.                                       *)

NThreads == 2

Calls == {"lexer", "yaccer"}

\* the texts the calls are given
Texts == {"CD_DA 0:9", "//c\nNO \"a\"", "1:2:3 ;"}

\* a new Lexer: no input yet
NewLexer == [lexdata |-> None, lexpos |-> 0]

\* Lexer.input(s)
Lexer_input(s) == [lexdata |-> StrV(s), lexpos |-> 0]

\* the exception of token() on a Lexer without input
NoInputRaised == Raise("RuntimeError: No input string given with input()")

TInit ==
    /\ lexers = <<>>
    /\ lexglobal = 0
    /\ threads \in [1..NThreads ->
                      {[call |-> cl, txt |-> s, l |-> 0, toks |-> <<>>, m |-> None,
                        ret |-> None,
                        pc |-> IF cl = "lexer" THEN "lex.lex" ELSE "yacc.yacc"] :
                          cl \in Calls, s \in Texts}]

\* parser = yacc.yacc(debug=debug)
YaccYacc(t) ==
    /\ threads[t].pc = "yacc.yacc"
    /\ threads' = [threads EXCEPT ![t].pc = "lex.lex"]
    /\ UNCHANGED <<lexers, lexglobal>>
    /\ UNCHANGED <<msfVars, parseVars, tocVars, tokVars>>

\* lex.lex(): the new Lexer is returned and the module's input and token
\* are bound to it
LexLex(t) ==
    /\ threads[t].pc = "lex.lex"
    /\ lexers' = Append(lexers, NewLexer)
    /\ lexglobal' = Len(lexers) + 1
    /\ threads' = [threads EXCEPT ![t].l = Len(lexers) + 1,
                                  ![t].pc = IF threads[t].call = "lexer"
                                            THEN "lex.input" ELSE "lexer.input"]
    /\ UNCHANGED <<msfVars, parseVars, tocVars, tokVars>>

\* lex.input(txt) in lexer: the input of the Lexer the module is bound to
LexInput(t) ==
    /\ threads[t].pc = "lex.input"
    /\ lexers' = [lexers EXCEPT ![lexglobal] = Lexer_input(threads[t].txt)]
    /\ threads' = [threads EXCEPT ![t].pc = "token"]
    /\ UNCHANGED lexglobal
    /\ UNCHANGED <<msfVars, parseVars, tocVars, tokVars>>

\* lexer.input(input) in parser.parse: the input of the Lexer of the call
LexerInput(t) ==
    /\ threads[t].pc = "lexer.input"
    /\ lexers' = [lexers EXCEPT ![threads[t].l] = Lexer_input(threads[t].txt)]
    /\ threads' = [threads EXCEPT ![t].pc = "token"]
    /\ UNCHANGED lexglobal
    /\ UNCHANGED <<msfVars, parseVars, tocVars, tokVars>>

\* token() of the call's own Lexer, up to the match: lexpos and lexdata are
\* copied, and a Lexer without input has lexlen 0
TokenMatch(t) ==
    /\ threads[t].pc = "token"
    /\ \E lx \in {lexers[threads[t].l]} :
          threads' = [threads EXCEPT
                        ![t].m = IF lx.lexdata = None
                                 THEN [kind |-> "end", at |-> lx.lexpos, end |-> lx.lexpos]
                                 ELSE Match(lx.lexdata.val, lx.lexpos),
                        ![t].pc = "token.return"]
    /\ UNCHANGED <<lexers, lexglobal>>
    /\ UNCHANGED <<msfVars, parseVars, tocVars, tokVars>>

\* token() from the match to its return: lexpos is written; a token is
\* appended to toks; at the end of the text None is returned and the loop
\* ends, unless lexdata is None, which raises; t_error raises
TokenReturn(t) ==
    /\ threads[t].pc = "token.return"
    /\ \E m \in {threads[t].m} : \E l \in {threads[t].l} :
          CASE m.kind = "token" ->
                  /\ lexers' = [lexers EXCEPT ![l].lexpos = m.end]
                  /\ threads' = [threads EXCEPT ![t].toks = Append(@, m.tok),
                                                ![t].m = None,
                                                ![t].pc = "token"]
            [] m.kind = "error" ->
                  /\ lexers' = [lexers EXCEPT ![l].lexpos = m.at]
                  /\ threads' = [threads EXCEPT ![t].ret = LexErrorRaised,
                                                ![t].m = None,
                                                ![t].pc = "raised"]
            [] OTHER ->
                  /\ lexers' = [lexers EXCEPT ![l].lexpos = m.end + 1]
                  /\ threads' = [threads EXCEPT
                                   ![t].ret = IF lexers[l].lexdata = None
                                              THEN NoInputRaised
                                              ELSE ListV(threads[t].toks),
                                   ![t].m = None,
                                   ![t].pc = IF lexers[l].lexdata = None
                                             THEN "raised" ELSE "returned"]
    /\ UNCHANGED lexglobal
    /\ UNCHANGED <<msfVars, parseVars, tocVars, tokVars>>

TNext ==
    \E t \in 1..NThreads :
        \/ YaccYacc(t)
        \/ LexLex(t)
        \/ LexInput(t)
        \/ LexerInput(t)
        \/ TokenMatch(t)
        \/ TokenReturn(t)

InitThreads == TInit /\ MIdle /\ PIdle /\ GIdle /\ KIdle

SpecThreads == InitThreads /\ [][TNext]_vars

ThreadDone(t) == threads[t].pc \in {"returned", "raised"}

\* C9: calls of lexer and yaccer share no mutable state: with the steps of
\* two calls interleaved in any order each call ends with the tokens (the
\* tree of the tokens) of its own text, as it does when run alone.
CallsShareNoState ==
    \A t \in DOMAIN threads :
        ThreadDone(t) => threads[t].ret = Tokens(threads[t].txt)

----------------------------------------------------------------------------
(* Specification SpecGetTrack: GetTrack(num) on a TOC object whose _tracks *)
(* is a list of Track objects.  The tracks are those Track() builds from   *)
(* track records with a CD_TEXT block, whose comments are "Track <n>" or   *)
(* no track number at all; a number may occur twice.                       *)

MaxNum == 3

\* the comments of the tracks: Track 1 .. Track MaxNum, and one without a number
TrackComments == {"Track " \o DecStr(n) : n \in 1..MaxNum} \cup {"Intro"}

\* Track(p) for the record of a track with the comment given
TrackOf(comment) ==
    Track_init([TrackRecord(p_TIMES_number(<<IntV(0), StrV("1:00:00")>>), TRUE)
                   EXCEPT !.val.comment = StrV(comment)])

\* the TOC objects with up to MaxTracks tracks, as the last lines of
\* TOC.parse assign them
PopulatedTOCs ==
    {[type |-> "TOC", _header |-> None, _tracks |-> ListV([i \in DOMAIN cs |-> TrackOf(cs[i])])] :
        cs \in UNION {[1..n -> TrackComments] : n \in 0..MaxTracks}}

\* the arguments: the numbers from 0 to beyond the last one, and None
Nums == {IntV(n) : n \in 0..MaxNum + 1} \cup {None}

GInit ==
    /\ gself \in PopulatedTOCs
    /\ gnum \in Nums
    /\ got = None
    /\ gpc = "call"

\* got = self.GetTrack(num)
GetTrackCall ==
    /\ gpc = "call"
    /\ \E r \in {GetTrack(gself, gnum)} :
          /\ got' = r
          /\ gpc' = IF IsExc(r) THEN "raised" ELSE "returned"
    /\ UNCHANGED <<gself, gnum>>
    /\ UNCHANGED <<msfVars, parseVars, lexVars, tokVars>>

GNext == GetTrackCall

InitGetTrack == GInit /\ MIdle /\ PIdle /\ LIdle /\ KIdle

SpecGetTrack == InitGetTrack /\ [][GNext]_vars

\* the first Track of Tracks whose Number is n, None when there is none
FirstNumbered(tracks, n) ==
    LET hit == {i \in 1..Len(tracks) : PyEq(Track_Number(tracks[i]), n)}
    IN  IF hit = {} THEN None
        ELSE tracks[CHOOSE i \in hit : \A k \in hit : i <= k]

\* C11: GetTrack(num) returns the first Track in Tracks whose Number equals
\* num, and None when no track has that number; it never raises and never
\* modifies Tracks.
GetTrackFindsTrack ==
    [][gpc = "call" =>
          /\ got' = FirstNumbered(TOC_Tracks(gself).val, gnum)
          /\ TOC_Tracks(gself') = TOC_Tracks(gself)]_vars

----------------------------------------------------------------------------
(* Specification SpecLexer: one call of lexer(txt).  The text is written   *)
(* from up to MaxWords words with one separator between them; a word is a  *)
(* piece of TOC text together with the tokens it stands for.  A step is    *)
(* one turn of the loop of lexer: tok = l.token(), then toks.append(tok)   *)
(* or the end of the loop.                                                 *)

MaxWords == 3

Word(s, toks) == [text |-> s, toks |-> toks]

\* M:S:F literals, one-colon pairs as in a language map, a number, a
\* keyword, a comment line that has a time in it, and a character of no rule
Words ==
    {Word("1:2:3", <<Time("1:2:3")>>),
     Word("00:02:00", <<Time("00:02:00")>>),
     Word("0:9", <<Number(0), Kw("COLON"), Number(9)>>),
     Word("{1:15}", <<Kw("LCURLY"), Number(1), Kw("COLON"), Number(15), Kw("RCURLY")>>),
     Word("75", <<Number(75)>>),
     Word("INDEX", <<Kw("INDEX")>>),
     Word("// at 1:2:3\n", <<Comment("at 1:2:3")>>),
     Word("?", <<>>)}

\* what t_ignore and t_newline discard
Whitespace == t_ignore \cup {"\n"}

Separators == {" ", "\n", "\t "}

RECURSIVE Join(_, _)
Join(ws, sep) ==
    IF Len(ws) = 0 THEN ""
    ELSE IF Len(ws) = 1 THEN ws[1].text
    ELSE ws[1].text \o sep \o Join(Tail(ws), sep)

KInit ==
    /\ ltext \in {[txt |-> Join(ws, sep), words |-> ws] :
                    ws \in UNION {[1..n -> Words] : n \in 1..MaxWords}, sep \in Separators}
    /\ lself = NewLexer
    /\ ltoks = <<>>
    /\ lpc = "lex.input"

\* l = lex.lex(); lex.input(txt)
LexerInputText ==
    /\ lpc = "lex.input"
    /\ lself' = Lexer_input(ltext.txt)
    /\ lpc' = "token"
    /\ UNCHANGED <<ltext, ltoks>>
    /\ UNCHANGED <<msfVars, parseVars, lexVars, tocVars>>

\* tok = l.token() gives a token: toks.append(tok)
LexerToken ==
    /\ lpc = "token"
    /\ \E m \in {Match(lself.lexdata.val, lself.lexpos)} :
          /\ m.kind = "token"
          /\ lself' = [lself EXCEPT !.lexpos = m.end]
          /\ ltoks' = Append(ltoks, [tok |-> m.tok, lexpos |-> m.at, endpos |-> m.end])
    /\ UNCHANGED <<ltext, lpc>>
    /\ UNCHANGED <<msfVars, parseVars, lexVars, tocVars>>

\* tok = l.token() gives None, and lexer returns toks; or t_error raises
LexerEnd ==
    /\ lpc = "token"
    /\ \E m \in {Match(lself.lexdata.val, lself.lexpos)} :
          /\ m.kind # "token"
          /\ lself' = [lself EXCEPT !.lexpos = IF m.kind = "end" THEN m.end + 1 ELSE m.at]
          /\ lpc' = IF m.kind = "end" THEN "returned" ELSE "raised"
    /\ UNCHANGED <<ltext, ltoks>>
    /\ UNCHANGED <<msfVars, parseVars, lexVars, tocVars>>

KNext == LexerInputText \/ LexerToken \/ LexerEnd

InitLexer == KInit /\ MIdle /\ PIdle /\ LIdle /\ GIdle

SpecLexer == InitLexer /\ [][KNext]_vars

\* the tokens the words of the text stand for, in the order of the words
RECURSIVE WordTokens(_)
WordTokens(ws) == IF Len(ws) = 0 THEN <<>> ELSE Head(ws).toks \o WordTokens(Tail(ws))

\* the tokens lexer has in toks
Emitted == [k \in 1..Len(ltoks) |-> ltoks[k].tok]

\* C12: the TIME rule goes before COLON and NUMBER: a run digits ':' digits
\* ':' digits is one TIME token whose value is the raw text, digits ':'
\* digits with one colon is NUMBER COLON NUMBER with integer values, the
\* tokens come in source order, and every character of the text is in
\* exactly one token or is whitespace that is discarded.  (A run inside a
\* comment is text of the COMMENT token.)
TimeBeforeColonAndNumber ==
    lpc = "returned" =>
        /\ Emitted = WordTokens(ltext.words)
        /\ \A k \in 1..Len(ltoks) :
              /\ ltoks[k].lexpos < ltoks[k].endpos
              /\ k < Len(ltoks) => ltoks[k].endpos <= ltoks[k + 1].lexpos
              /\ ltoks[k].tok.type = "TIME" =>
                    ltoks[k].tok.value =
                        StrV(SubSeq(ltext.txt, ltoks[k].lexpos + 1, ltoks[k].endpos))
        /\ \A i \in 0..Len(ltext.txt) - 1 :
              \/ \E k \in 1..Len(ltoks) : ltoks[k].lexpos <= i /\ i < ltoks[k].endpos
              \/ At(ltext.txt, i) \in Whitespace

\* lexer has returned the tokens of a text with an M:S:F literal after a
\* one-colon pair
TimeBeforeColonAndNumberWitness ==
    /\ lpc = "returned"
    /\ Len(ltext.words) >= 2
    /\ ltext.words[1].text = "0:9"
    /\ ltext.words[2].text = "1:2:3"
    /\ Len(ltoks) >= 4
    /\ ltoks[4].tok = Time("1:2:3")

============================================================================
